---- MODULE Spec2Model ----
(***************************************************************************)
(* State-machine model of the snippet store of src/storage.js: the        *)
(* cache-backed StorageManager (lines 150-346), its localStorage slot and  *)
(* the millisecond clock its ids and timestamps are taken from, and of    *)
(* the handlers of src/unnamed/part_000 that call it.                     *)
(*                                                                         *)
(* JavaScript values are tagged records; a JavaScript string is a          *)
(* sequence of one-character strings, so that toLowerCase, includes and    *)
(* Number.prototype.toString can be computed.  A text (the content of the  *)
(* slot, an exported or imported file) is a value of its own kind: either  *)
(* the empty string, text JSON.parse rejects, or a JSON document with its  *)
(* indentation.                                                            *)
(***************************************************************************)
EXTENDS Integers, Sequences, FiniteSets, TLC

\* snippets: the cache (this.snippets); slot: the localStorage item under
\* storageKey; now: the millisecond clock; last: the latest call, its
\* arguments, what it returned and what became of its backend write;
\* calls: the calls made so far; failures: the backend writes that raised;
\* ui: what the UI handler that made the latest call did with the values
\* the store returned to it.
VARIABLES snippets, slot, now, last, calls, failures, ui

vars == <<snippets, slot, now, last, calls, failures, ui>>

\* ------------------------------------------------------------ bounds
\* Largest value of the millisecond clock (Date.now()) the model reaches.
MaxClock == 1
\* Largest number of calls made to the store in one run, after the first
\* construction: addSnippet, updateSnippet, deleteSnippet, importSnippets
\* and constructions on reload.
MaxCalls == 3

\* Largest number of backend writes that raise in one run.
MaxFailures == 1

\* ------------------------------------------------- JavaScript values
Undefined == [t |-> "undefined"]
Null == [t |-> "null"]
Num(n) == [t |-> "number", n |-> n]
Str(s) == [t |-> "string", s |-> s]
Arr(a) == [t |-> "array", a |-> a]
Obj(o) == [t |-> "object", o |-> o]

IsArray(v) == v.t = "array"
IsObject(v) == v.t = "object"
IsString(v) == v.t = "string"

\* ToBoolean: the falsy values are undefined, null, "" and 0.
Truthy(v) ==
    CASE v.t = "undefined" -> FALSE
      [] v.t = "null" -> FALSE
      [] v.t = "string" -> v.s # <<>>
      [] v.t = "number" -> v.n # 0
      [] v.t = "boolean" -> v.b
      [] OTHER -> TRUE

\* v.k raises a TypeError exactly when v is null or undefined.
GetThrows(v) == v.t \in {"null", "undefined"}

\* v.k for the keys a snippet has; a missing key reads as undefined.
Get(v, k) ==
    IF IsObject(v) /\ k \in DOMAIN v.o THEN v.o[k] ELSE Undefined

\* {...a, ...b}: the keys of both objects, b's values winning.
Spread(a, b) ==
    [k \in (DOMAIN a) \cup (DOMAIN b) |-> IF k \in DOMAIN b THEN b[k] ELSE a[k]]

\* --------------------------------------------------------- strings
Digits == <<"0", "1", "2", "3", "4", "5", "6", "7", "8", "9">>

\* Number.prototype.toString(): the decimal digits of a non-negative integer.
RECURSIVE ToDecimal(_)
ToDecimal(n) ==
    IF n < 10 THEN <<Digits[n + 1]>>
    ELSE ToDecimal(n \div 10) \o <<Digits[(n % 10) + 1]>>

\* Date.prototype.toISOString() of the instant n milliseconds after the
\* epoch: n's digits and the zone designator.
ToISOString(n) == ToDecimal(n) \o <<"Z">>

UpperCase == <<"A", "B", "C", "D", "E", "F", "G", "H", "I", "J", "K", "L", "M",
               "N", "O", "P", "Q", "R", "S", "T", "U", "V", "W", "X", "Y", "Z">>
LowerCase == <<"a", "b", "c", "d", "e", "f", "g", "h", "i", "j", "k", "l", "m",
               "n", "o", "p", "q", "r", "s", "t", "u", "v", "w", "x", "y", "z">>

\* String.prototype.toLowerCase()
ToLowerCase(s) ==
    [i \in DOMAIN s |->
        IF \E k \in DOMAIN UpperCase : UpperCase[k] = s[i]
        THEN LowerCase[CHOOSE k \in DOMAIN UpperCase : UpperCase[k] = s[i]]
        ELSE s[i]]

\* String.prototype.includes(q): q occurs in s as a substring.
Includes(s, q) ==
    \E i \in 0..(Len(s) - Len(q)) : SubSeq(s, i + 1, i + Len(q)) = q

\* The characters of the model in the order of their UTF-16 code units.
CodeUnits == Digits \o UpperCase \o LowerCase
CharCode(ch) == CHOOSE k \in DOMAIN CodeUnits : CodeUnits[k] = ch

\* a < b for strings: the comparison Array.prototype.sort makes by default.
RECURSIVE StringLess(_, _)
StringLess(a, b) ==
    IF b = <<>> THEN FALSE
    ELSE IF a = <<>> THEN TRUE
    ELSE IF Head(a) = Head(b) THEN StringLess(Tail(a), Tail(b))
    ELSE CharCode(Head(a)) < CharCode(Head(b))

\* String(v) for the values a tag takes in the model: strings, numbers, null.
TagString(v) ==
    CASE v.t = "string" -> v.s
      [] v.t = "number" -> ToDecimal(v.n)
      [] v.t = "null" -> <<"n", "u", "l", "l">>

\* ------------------------------------------------------------ texts
NoItem == [kind |-> "none"]
EmptyText == [kind |-> "empty"]
Garbage == [kind |-> "garbage"]

JNull == [j |-> "null"]
JNum(n) == [j |-> "number", n |-> n]
JStr(s) == [j |-> "string", s |-> s]
JArr(a) == [j |-> "array", a |-> a]
JObj(o) == [j |-> "object", o |-> o]

\* The JSON document JSON.stringify writes for a value: a key whose value
\* is undefined is left out of its object, an undefined array element is
\* written as null.
RECURSIVE ToJson(_)
ToJson(v) ==
    CASE v.t = "null" -> JNull
      [] v.t = "undefined" -> JNull
      [] v.t = "number" -> JNum(v.n)
      [] v.t = "string" -> JStr(v.s)
      [] v.t = "array" -> JArr([i \in DOMAIN v.a |-> ToJson(v.a[i])])
      [] v.t = "object" ->
            JObj([k \in {x \in DOMAIN v.o : v.o[x] # Undefined} |-> ToJson(v.o[k])])

\* JSON.stringify(v, null, indent).
Stringify(v, indent) == [kind |-> "json", indent |-> indent, doc |-> ToJson(v)]

RECURSIVE FromJson(_)
FromJson(d) ==
    CASE d.j = "null" -> Null
      [] d.j = "number" -> Num(d.n)
      [] d.j = "string" -> Str(d.s)
      [] d.j = "array" -> Arr([i \in DOMAIN d.a |-> FromJson(d.a[i])])
      [] d.j = "object" -> Obj([k \in DOMAIN d.o |-> FromJson(d.o[k])])

\* JSON.parse raises a SyntaxError on the empty string and on text that is
\* no JSON; white space (the indentation) means nothing to it.
ParseThrows(text) == text.kind # "json"
Parse(text) == FromJson(text.doc)

\* ------------------------------------------------ the result of a call
Bool(b) == [t |-> "boolean", b |-> b]

\* The result of a call: the cache and the slot it leaves, what it returned
\* or that it raised, what became of its write, and held: what the array
\* that getSnippets() returned before the call holds after it (for a
\* construction, the array it loaded), and writer: the method whose
\* statement called localStorage.setItem.

\* A call that returns v, leaving the cache c and the slot sl behind.
Return(c, sl, v) ==
    [snippets |-> c, slot |-> sl, ret |-> v, raised |-> FALSE, write |-> "none",
     held |-> c, writer |-> "none"]
\* A call that raises to its caller.
Raise(c, sl) ==
    [snippets |-> c, slot |-> sl, ret |-> Undefined, raised |-> TRUE, write |-> "none",
     held |-> c, writer |-> "none"]
\* localStorage.setItem(storageKey, text): ok tells whether it completes
\* (it raises when the quota is exceeded or storage is unavailable).
SetItem(sl, text, ok) == IF ok THEN text ELSE sl
Written(ok) == IF ok THEN "done" ELSE "failed"

\* ------------------------------------------------------ StorageManager
\* _loadSnippets as it would be if its catch branch initialised the item
\* too: text that does not parse is replaced by "[]".
_loadSnippetsRepairing(sl, ok) ==
    IF sl = NoItem \/ sl = EmptyText \/ ParseThrows(sl)
    THEN [snippets |-> Arr(<<>>), slot |-> SetItem(sl, Stringify(Arr(<<>>), 0), ok),
          ret |-> Arr(<<>>), raised |-> FALSE, write |-> Written(ok),
          held |-> Arr(<<>>), writer |-> "_loadSnippets"]
    ELSE Return(Parse(sl), sl, Parse(sl))

\* _loadSnippets as it would be if it initialised a missing item with "{}".
_loadSnippetsEmptyObject(sl, ok) ==
    IF sl = NoItem \/ sl = EmptyText
    THEN [snippets |-> Arr(<<>>), slot |-> SetItem(sl, Stringify(Obj(<<>>), 0), ok),
          ret |-> Arr(<<>>), raised |-> FALSE, write |-> Written(ok),
          held |-> Arr(<<>>), writer |-> "_loadSnippets"]
    ELSE IF ParseThrows(sl)
         THEN Return(Arr(<<>>), sl, Arr(<<>>))
         ELSE Return(Parse(sl), sl, Parse(sl))

\* _loadSnippets: a missing or empty item is initialised with "[]"; every
\* error, the write's included, is caught and answered with [].
_loadSnippets(sl, ok) ==
    IF sl = NoItem \/ sl = EmptyText
    THEN [snippets |-> Arr(<<>>), slot |-> SetItem(sl, Stringify(Arr(<<>>), 0), ok),
          ret |-> Arr(<<>>), raised |-> FALSE, write |-> Written(ok),
          held |-> Arr(<<>>), writer |-> "_loadSnippets"]
    ELSE IF ParseThrows(sl)
         THEN Return(Arr(<<>>), sl, Arr(<<>>))
         ELSE Return(Parse(sl), sl, Parse(sl))

\* constructor: this.snippets = this._loadSnippets().
Construct(sl, ok) == _loadSnippets(sl, ok)

\* getSnippets
getSnippets(c) == c

\* saveSnippets as it would be without its catch branch returning false:
\* the failed write is swallowed and success reported.
saveSnippetsAlwaysTrue(c, s, sl, ok) ==
    [snippets |-> s, slot |-> SetItem(sl, Stringify(s, 0), ok),
     ret |-> Bool(TRUE), raised |-> FALSE, write |-> Written(ok), held |-> c,
     writer |-> "saveSnippets"]

\* saveSnippets: the cache is assigned before the write is attempted. The
\* assignment replaces the reference this.snippets; the array c it referred
\* to is left as it was.
saveSnippets(c, s, sl, ok) ==
    [snippets |-> s, slot |-> SetItem(sl, Stringify(s, 0), ok),
     ret |-> Bool(ok), raised |-> FALSE, write |-> Written(ok), held |-> c,
     writer |-> "saveSnippets"]

\* [...v]: an array or a string spreads, anything else raises a TypeError.
Iterable(v) == v.t \in {"array", "string"}
SpreadElems(v) ==
    IF IsArray(v) THEN v.a ELSE [i \in DOMAIN v.s |-> Str(<<v.s[i]>>)]

\* addSnippet as it would be if it pushed into this.snippets itself, as the
\* class of lines 5-142 does, instead of into a copy.
addSnippetInPlace(c, sl, t, snippet, ok) ==
    IF ~Iterable(getSnippets(c)) THEN Raise(c, sl)
    ELSE LET stamped == Spread(snippet.o,
                               [id |-> Str(ToDecimal(t)),
                                createdAt |-> Str(ToISOString(t))])
             pushed == Arr(Append(SpreadElems(c), Obj(stamped)))
         IN  [saveSnippets(c, pushed, sl, ok) EXCEPT !.held = pushed]

\* addSnippet(snippet) at clock value t: the record is pushed into a copy of
\* the cache.
addSnippet(c, sl, t, snippet, ok) ==
    IF ~Iterable(getSnippets(c)) THEN Raise(c, sl)
    ELSE LET stamped == Spread(snippet.o,
                               [id |-> Str(ToDecimal(t)),
                                createdAt |-> Str(ToISOString(t))])
         IN  saveSnippets(c, Arr(Append(SpreadElems(c), Obj(stamped))), sl, ok)

\* The callbacks of map, filter and find read snippet.id of every element.
ReadsIdThrow(c) == ~IsArray(c) \/ \E i \in DOMAIN c.a : GetThrows(c.a[i])

\* updateSnippet as it would be without the updatedAt stamp.
updateSnippetUnstamped(c, sl, t, id, updatedSnippet, ok) ==
    IF ReadsIdThrow(c) THEN Raise(c, sl)
    ELSE LET merged(s) == Obj(Spread(s.o, updatedSnippet.o))
             newSnippets == [i \in DOMAIN c.a |->
                                IF Get(c.a[i], "id") = id THEN merged(c.a[i])
                                ELSE c.a[i]]
             snippetFound == \E i \in DOMAIN c.a : Get(c.a[i], "id") = id
         IN  IF snippetFound THEN saveSnippets(c, Arr(newSnippets), sl, ok)
             ELSE Return(c, sl, Bool(FALSE))

\* updateSnippet as it would be if it saved without looking at snippetFound.
updateSnippetUnchecked(c, sl, t, id, updatedSnippet, ok) ==
    IF ReadsIdThrow(c) THEN Raise(c, sl)
    ELSE LET merged(s) == Obj(Spread(Spread(s.o, updatedSnippet.o),
                                     [updatedAt |-> Str(ToISOString(t))]))
             newSnippets == [i \in DOMAIN c.a |->
                                IF Get(c.a[i], "id") = id THEN merged(c.a[i])
                                ELSE c.a[i]]
         IN  saveSnippets(c, Arr(newSnippets), sl, ok)

\* updateSnippet(id, updatedSnippet) at clock value t.
updateSnippet(c, sl, t, id, updatedSnippet, ok) ==
    IF ReadsIdThrow(c) THEN Raise(c, sl)
    ELSE LET merged(s) == Obj(Spread(Spread(s.o, updatedSnippet.o),
                                     [updatedAt |-> Str(ToISOString(t))]))
             newSnippets == [i \in DOMAIN c.a |->
                                IF Get(c.a[i], "id") = id THEN merged(c.a[i])
                                ELSE c.a[i]]
             snippetFound == \E i \in DOMAIN c.a : Get(c.a[i], "id") = id
         IN  IF snippetFound THEN saveSnippets(c, Arr(newSnippets), sl, ok)
             ELSE Return(c, sl, Bool(FALSE))

\* deleteSnippet as it would be if it took out the first record with the
\* id only (findIndex and splice on a copy).
deleteSnippetFirstOnly(c, sl, id, ok) ==
    IF ReadsIdThrow(c) THEN Raise(c, sl)
    ELSE IF \E i \in DOMAIN c.a : Get(c.a[i], "id") = id
         THEN LET index == CHOOSE i \in DOMAIN c.a :
                              /\ Get(c.a[i], "id") = id
                              /\ \A j \in 1..(i - 1) : Get(c.a[j], "id") # id
              IN  saveSnippets(c, Arr(SubSeq(c.a, 1, index - 1)
                                        \o SubSeq(c.a, index + 1, Len(c.a))),
                               sl, ok)
         ELSE Return(c, sl, Bool(FALSE))

\* deleteSnippet as it would be if it reversed what the filter kept.
deleteSnippetReversed(c, sl, id, ok) ==
    IF ReadsIdThrow(c) THEN Raise(c, sl)
    ELSE LET differs(s) == Get(s, "id") # id
             filteredSnippets == SelectSeq(c.a, differs)
             reversed == [i \in DOMAIN filteredSnippets |->
                             filteredSnippets[Len(filteredSnippets) + 1 - i]]
         IN  IF Len(c.a) # Len(filteredSnippets)
             THEN saveSnippets(c, Arr(reversed), sl, ok)
             ELSE Return(c, sl, Bool(FALSE))

\* deleteSnippet as it would be if it saved without comparing the lengths.
deleteSnippetUnchecked(c, sl, id, ok) ==
    IF ReadsIdThrow(c) THEN Raise(c, sl)
    ELSE LET differs(s) == Get(s, "id") # id
         IN  saveSnippets(c, Arr(SelectSeq(c.a, differs)), sl, ok)

\* deleteSnippet(id); filter (SelectSeq) keeps the order of what it keeps.
deleteSnippet(c, sl, id, ok) ==
    IF ReadsIdThrow(c) THEN Raise(c, sl)
    ELSE LET differs(s) == Get(s, "id") # id
             filteredSnippets == SelectSeq(c.a, differs)
         IN  IF Len(c.a) # Len(filteredSnippets)
             THEN saveSnippets(c, Arr(filteredSnippets), sl, ok)
             ELSE Return(c, sl, Bool(FALSE))

\* getSnippetById(id)
getSnippetById(c, sl, id) ==
    IF ReadsIdThrow(c) THEN Raise(c, sl)
    ELSE IF \E i \in DOMAIN c.a : Get(c.a[i], "id") = id
         THEN Return(c, sl, c.a[CHOOSE i \in DOMAIN c.a :
                                    /\ Get(c.a[i], "id") = id
                                    /\ \A j \in 1..(i - 1) : Get(c.a[j], "id") # id])
         ELSE Return(c, sl, Null)

\* exportSnippets()
exportSnippets(c) == Stringify(getSnippets(c), 2)

\* The filter of importSnippets: title, language and code all truthy.
HasRequired(s) ==
    Truthy(Get(s, "title")) /\ Truthy(Get(s, "language")) /\ Truthy(Get(s, "code"))

\* importSnippets(jsonData): every error raised inside is caught.
importSnippets(c, sl, jsonData, ok) ==
    IF ParseThrows(jsonData) THEN Return(c, sl, Bool(FALSE))
    ELSE LET snippetsToImport == Parse(jsonData)
         IN  IF ~IsArray(snippetsToImport) THEN Return(c, sl, Bool(FALSE))
             ELSE IF \E i \in DOMAIN snippetsToImport.a :
                         GetThrows(snippetsToImport.a[i])
                  THEN Return(c, sl, Bool(FALSE))
                  ELSE saveSnippets(c, Arr(SelectSeq(snippetsToImport.a, HasRequired)),
                                    sl, ok)

\* field && field.toLowerCase().includes(lowerQuery): "throw" when a truthy
\* field is no string (it has no toLowerCase).
FieldMatch(field, lowerQuery) ==
    IF ~Truthy(field) THEN "false"
    ELSE IF ~IsString(field) THEN "throw"
    ELSE IF Includes(ToLowerCase(field.s), lowerQuery) THEN "true" ELSE "false"

\* tags.some(tag => tag.toLowerCase().includes(lowerQuery)): the tags are
\* tried in order and the first match ends the loop.
RECURSIVE SomeTag(_, _)
SomeTag(tags, lowerQuery) ==
    IF tags = <<>> THEN "false"
    ELSE IF ~IsString(Head(tags)) THEN "throw"
    ELSE IF Includes(ToLowerCase(Head(tags).s), lowerQuery) THEN "true"
    ELSE SomeTag(Tail(tags), lowerQuery)

\* snippet.tags && snippet.tags.some(...): only an array has some.
TagsMatch(tags, lowerQuery) ==
    IF ~Truthy(tags) THEN "false"
    ELSE IF ~IsArray(tags) THEN "throw"
    ELSE SomeTag(tags.a, lowerQuery)

\* What the filter callback of searchSnippets computes for one element:
\* the four matches are all computed before they are combined.
SnippetMatch(snippet, lowerQuery) ==
    IF GetThrows(snippet) THEN "throw"
    ELSE LET inTitle == FieldMatch(Get(snippet, "title"), lowerQuery)
             inDescription == FieldMatch(Get(snippet, "description"), lowerQuery)
             inCode == FieldMatch(Get(snippet, "code"), lowerQuery)
             inTags == TagsMatch(Get(snippet, "tags"), lowerQuery)
             all == {inTitle, inDescription, inCode, inTags}
         IN  IF "throw" \in all THEN "throw"
             ELSE IF "true" \in all THEN "true" ELSE "false"

\* searchSnippets(query)
searchSnippets(c, sl, query) ==
    LET lowerQuery == ToLowerCase(query.s)
        matches(s) == SnippetMatch(s, lowerQuery) = "true"
    IN  IF ~IsArray(c) THEN Raise(c, sl)
        ELSE IF \E i \in DOMAIN c.a : SnippetMatch(c.a[i], lowerQuery) = "throw"
             THEN Raise(c, sl)
             ELSE Return(c, sl, Arr(SelectSeq(c.a, matches)))

\* The tags a snippet gives to getAllTags: snippet.tags when it is an array.
TagsOf(snippet) ==
    IF Truthy(Get(snippet, "tags")) /\ IsArray(Get(snippet, "tags"))
    THEN Get(snippet, "tags").a ELSE <<>>

\* The Set the tags are added to, as the sequence of its members in the
\* order they were first added.
RECURSIVE AddAll(_, _)
AddAll(allTags, tags) ==
    IF tags = <<>> THEN allTags
    ELSE AddAll(IF \E i \in DOMAIN allTags : allTags[i] = Head(tags)
                THEN allTags ELSE Append(allTags, Head(tags)),
                Tail(tags))

RECURSIVE CollectTags(_, _)
CollectTags(allTags, a) ==
    IF a = <<>> THEN allTags
    ELSE CollectTags(AddAll(allTags, TagsOf(Head(a))), Tail(a))

\* Array.prototype.sort(): stable, by the elements' strings.
RECURSIVE InsertTag(_, _)
InsertTag(sorted, tag) ==
    IF sorted = <<>> THEN <<tag>>
    ELSE IF StringLess(TagString(tag), TagString(Head(sorted)))
         THEN <<tag>> \o sorted
         ELSE <<Head(sorted)>> \o InsertTag(Tail(sorted), tag)

RECURSIVE SortTags(_)
SortTags(tags) ==
    IF tags = <<>> THEN <<>>
    ELSE InsertTag(SortTags(SubSeq(tags, 1, Len(tags) - 1)), tags[Len(tags)])

\* getAllTags as it would be without the sort.
getAllTagsUnsorted(c, sl) ==
    IF ~IsArray(c) THEN Raise(c, sl)
    ELSE IF \E i \in DOMAIN c.a : GetThrows(c.a[i]) THEN Raise(c, sl)
         ELSE Return(c, sl, Arr(CollectTags(<<>>, c.a)))

\* getAllTags()
getAllTags(c, sl) ==
    IF ~IsArray(c) THEN Raise(c, sl)
    ELSE IF \E i \in DOMAIN c.a : GetThrows(c.a[i]) THEN Raise(c, sl)
         ELSE Return(c, sl, Arr(SortTags(CollectTags(<<>>, c.a))))

\* ------------------------------------------------------------ inputs
S(str) == Str(str)
\* What handleFormSubmit passes: title, language, tags, description, code.
FormSnippet(title, tags) ==
    Obj([title |-> S(title), language |-> S(<<"j", "s">>), tags |-> Arr(tags),
         description |-> S(<<>>), code |-> S(<<"c">>)])

\* A form submitted with its title, tags, description and code left empty.
BlankSnippet ==
    Obj([title |-> S(<<>>), language |-> S(<<"j", "s">>), tags |-> Arr(<<>>),
         description |-> S(<<>>), code |-> S(<<>>)])

\* The arguments of addSnippet: a filled form, a blank form, and an object
\* that brings its own id, createdAt and updatedAt.
AddArgs ==
    { FormSnippet(<<"A", "b">>, <<S(<<"b">>), S(<<"a">>)>>),
      BlankSnippet,
      Obj([title |-> S(<<"b">>), language |-> S(<<"j", "s">>), code |-> S(<<"c">>),
           id |-> S(<<"x">>), createdAt |-> S(<<"8", "Z">>),
           updatedAt |-> S(<<"8", "Z">>)]) }

\* The fields of updateSnippet: a new title, and fields naming id,
\* createdAt and updatedAt.
UpdateArgs ==
    { Obj([title |-> S(<<"x">>)]),
      Obj([id |-> S(<<"9">>), createdAt |-> S(<<"8", "Z">>),
           updatedAt |-> S(<<"8", "Z">>)]) }

\* An id no record carries.
AbsentId == S(<<"n", "o">>)

\* The ids the records of the cache carry.
IdsOf(c) ==
    IF IsArray(c)
    THEN {Get(c.a[i], "id") : i \in DOMAIN c.a} \ {Undefined}
    ELSE {}

Imported(title, id) ==
    Obj([id |-> S(id), title |-> S(title), language |-> S(<<"j", "s">>),
         code |-> S(<<"c">>), createdAt |-> S(<<"8", "Z">>)])

\* The files handed to importSnippets: no JSON, an object, an array with a
\* partial record only, an array mixing a valid and a partial record, two
\* valid records sharing an id, a valid record without an id whose tags
\* are numbers, an array holding null, and an array holding a number.
ImportTexts ==
    { Garbage,
      Stringify(Obj(<<>>), 2),
      Stringify(Arr(<<Obj([title |-> S(<<"t">>)])>>), 0),
      Stringify(Arr(<<Imported(<<"t">>, <<"7">>), Obj([title |-> S(<<"t">>)])>>), 2),
      Stringify(Arr(<<Imported(<<"t">>, <<"7">>), Imported(<<"u">>, <<"7">>)>>), 2),
      Stringify(Arr(<<Obj([title |-> S(<<"t">>), language |-> S(<<"j", "s">>),
                           code |-> S(<<"c">>), tags |-> Arr(<<Num(5)>>)])>>), 0),
      Stringify(Arr(<<Null>>), 0),
      Stringify(Arr(<<Num(5)>>), 0) }

\* The id the call before was made with, which a caller may pass again.
StaleIds == IF last.op \in {"update", "delete"} THEN {last.arg.id} ELSE {}

\* What the slot may hold when the page is first opened: nothing, text
\* that is no JSON, and JSON that is no array.
InitialSlots == {NoItem, Garbage, Stringify(Obj(<<>>), 0)}

\* ----------------------------------------------------------- actions
\* The outcomes of a backend write that are still open to this run.
WriteOutcomes == IF failures < MaxFailures THEN {TRUE, FALSE} ELSE {TRUE}

\* ------------------------------------------------------------ the UI
\* createSnippetCard(snippet) raises a TypeError unless tags is an array of
\* strings (snippet.tags.map, escapeHtml(tag)) and title, description and
\* code are strings (escapeHtml, snippet.code.length).
CardThrows(s) ==
    \/ GetThrows(s)
    \/ ~IsArray(Get(s, "tags"))
    \/ \E i \in DOMAIN Get(s, "tags").a : ~IsString(Get(s, "tags").a[i])
    \/ \E k \in {"title", "description", "code"} : ~IsString(Get(s, k))

\* renderSnippets() with the search box and the two filters empty: every
\* element passes the filter unread and gets a card.
RenderThrows(c) == ~IsArray(c) \/ \E i \in DOMAIN c.a : CardThrows(c.a[i])

\* What a handler has done: the values the store returned to it, whether
\* renderSnippets() and updateTagFilter() ran to their end, and the kind of
\* notification it showed.
Did(returns, rendered, refreshed, notice) ==
    [returns |-> returns, rendered |-> rendered, refreshed |-> refreshed,
     notice |-> notice]

\* renderSnippets(); updateTagFilter(); and what follows them when neither
\* raised.
Refresh(c, sl, returns, notice) ==
    IF RenderThrows(c) THEN Did(returns, FALSE, FALSE, "none")
    ELSE IF getAllTags(c, sl).raised THEN Did(returns, TRUE, FALSE, "none")
    ELSE Did(returns, TRUE, TRUE, notice)

\* handleFormSubmit, deleteSnippet and the onload of importSnippets after
\* the store call that ended as r: on a truthy value render, refresh the
\* tag filter and notify success; otherwise notify the error.
Handled(r) ==
    IF r.raised THEN Did(<<>>, FALSE, FALSE, "none")
    ELSE IF Truthy(r.ret) THEN Refresh(r.snippets, r.slot, <<r.ret>>, "success")
    ELSE Did(<<r.ret>>, FALSE, FALSE, "error")

\* init() up to setupEventListeners: renderSnippets(); updateTagFilter().
Loaded(r) == Refresh(r.snippets, r.slot, <<>>, "none")

\* What the UI did around the call op: importSnippets(exportSnippets()) is
\* made by no handler.
Shown(r, op) ==
    CASE op = "new" -> Loaded(r)
      [] op = "roundtrip" -> Did(<<>>, FALSE, FALSE, "none")
      [] OTHER -> Handled(r)

Mutations == {"add", "update", "delete", "import", "roundtrip"}

\* The state after a call op with the arguments arg that ended as r; last
\* records the call, what it returned and what became of its write.
Apply(r, op, arg) ==
    /\ snippets' = r.snippets
    /\ slot' = r.slot
    /\ last' = [op |-> op, arg |-> arg, ret |-> r.ret, raised |-> r.raised,
                write |-> r.write, held |-> r.held, writer |-> r.writer]
    /\ failures' = IF r.write = "failed" THEN failures + 1 ELSE failures
    /\ ui' = Shown(r, op)

Init ==
    /\ now = 0
    /\ \E sl \in InitialSlots, ok \in BOOLEAN :
          LET r == Construct(sl, ok)
          IN  /\ snippets = r.snippets
              /\ slot = r.slot
              /\ last = [op |-> "new", arg |-> [text |-> sl], ret |-> Undefined,
                         raised |-> r.raised, write |-> r.write,
                         held |-> r.held, writer |-> r.writer]
              /\ failures = IF r.write = "failed" THEN 1 ELSE 0
              /\ ui = Loaded(r)
    /\ calls = 0

\* A call is counted; the clock does not move while it runs.
Called == calls < MaxCalls /\ calls' = calls + 1 /\ UNCHANGED now

\* Time passes: Date.now() moves to the next millisecond.
Tick ==
    /\ now < MaxClock
    /\ now' = now + 1
    /\ UNCHANGED <<snippets, slot, last, calls, failures, ui>>

\* The page is loaded again: a new StorageManager is constructed.
Reload ==
    /\ \E ok \in WriteOutcomes :
          LET r == Construct(slot, ok)
          IN  Apply([r EXCEPT !.ret = Undefined], "new", [text |-> slot])
    /\ Called

Add ==
    /\ \E snippet \in AddArgs, ok \in WriteOutcomes :
          Apply(addSnippet(snippets, slot, now, snippet, ok), "add",
                [snippet |-> snippet])
    /\ Called

Update ==
    /\ \E id \in IdsOf(snippets) \cup StaleIds \cup {AbsentId}, fields \in UpdateArgs,
          ok \in WriteOutcomes :
          Apply(updateSnippet(snippets, slot, now, id, fields, ok), "update",
                [id |-> id, fields |-> fields])
    /\ Called

Delete ==
    /\ \E id \in IdsOf(snippets) \cup StaleIds \cup {AbsentId}, ok \in WriteOutcomes :
          Apply(deleteSnippet(snippets, slot, id, ok), "delete", [id |-> id])
    /\ Called

Import ==
    /\ \E jsonData \in ImportTexts, ok \in WriteOutcomes :
          Apply(importSnippets(snippets, slot, jsonData, ok), "import",
                [text |-> jsonData])
    /\ Called

\* importSnippets(exportSnippets()): the exported file is imported again.
RoundTrip ==
    /\ \E ok \in WriteOutcomes :
          Apply(importSnippets(snippets, slot, exportSnippets(snippets), ok),
                "roundtrip", [text |-> exportSnippets(snippets)])
    /\ Called

Next == Tick \/ Reload \/ Add \/ Update \/ Delete \/ Import \/ RoundTrip

Spec == Init /\ [][Next]_vars

\* The snippets addSampleSnippets adds.
SampleSnippets ==
    << Obj([title |-> S(<<"J", "s">>), language |-> S(<<"j", "s">>),
            tags |-> Arr(<<S(<<"j", "s">>), S(<<"a">>)>>),
            description |-> S(<<"M", "a", "p">>), code |-> S(<<"m">>)]),
       Obj([title |-> S(<<"P", "y">>), language |-> S(<<"p", "y">>),
            tags |-> Arr(<<S(<<"p", "y">>), S(<<"l">>)>>),
            description |-> S(<<"L", "i", "s", "t">>), code |-> S(<<"s">>)]),
       Obj([title |-> S(<<"C", "s", "s">>), language |-> S(<<"c", "s", "s">>),
            tags |-> Arr(<<S(<<"c", "s", "s">>), S(<<"f">>)>>),
            description |-> S(<<"F", "l", "e", "x">>), code |-> S(<<"d">>)]) >>

\* The forEach of addSampleSnippets at clock value t, the three writes
\* completing as oks tells: each addSnippet works on what the one before
\* left, and the values they return are dropped.
addSampleSnippets(c, sl, t, oks) ==
    LET first == addSnippet(c, sl, t, SampleSnippets[1], oks[1])
        second == addSnippet(first.snippets, first.slot, t, SampleSnippets[2], oks[2])
        third == addSnippet(second.snippets, second.slot, t, SampleSnippets[3], oks[3])
    IN  [snippets |-> third.snippets, slot |-> third.slot,
         returns |-> <<first.ret, second.ret, third.ret>>,
         write |-> third.write, held |-> c]

\* init() has rendered and found storage.getSnippets().length === 0.
SeedPending ==
    /\ last.op = "new"
    /\ ui.refreshed
    /\ IsArray(snippets)
    /\ Len(snippets.a) = 0

Failed(oks) == Cardinality({i \in DOMAIN oks : ~oks[i]})

\* init() goes on with addSampleSnippets(): the three snippets are added,
\* then renderSnippets() and updateTagFilter() are called.
Seed ==
    /\ SeedPending
    /\ \E oks \in [1..3 -> BOOLEAN] :
          /\ failures + Failed(oks) <= MaxFailures
          /\ LET r == addSampleSnippets(snippets, slot, now, oks)
             IN  /\ snippets' = r.snippets
                 /\ slot' = r.slot
                 /\ last' = [op |-> "seed", arg |-> [snippets |-> SampleSnippets],
                             ret |-> Undefined, raised |-> FALSE,
                             write |-> r.write, held |-> r.held,
                             writer |-> "saveSnippets"]
                 /\ failures' = failures + Failed(oks)
                 /\ ui' = Refresh(r.snippets, r.slot, r.returns, "none")
    /\ Called

\* The application: init() runs to its end before any event is handled.
Ready == ~SeedPending

\* The page is loaded again.
PageLoad == Ready /\ Reload

\* handleFormSubmit: addSnippet without a currentSnippetId, updateSnippet
\* with one.
FormSubmit == Ready /\ (Add \/ Update)

\* deleteSnippet, the deletion confirmed.
DeleteConfirmed == Ready /\ Delete

\* importSnippets: the onload of the FileReader.
FileLoaded == Ready /\ Import

NextUI == Tick \/ Seed \/ PageLoad \/ FormSubmit \/ DeleteConfirmed \/ FileLoaded

SpecUI == Init /\ [][NextUI]_vars

\* The runs in which the slot is written by the store alone: the page is
\* first opened over a slot that holds nothing.
InitOwn ==
    /\ Init
    /\ last.arg.text = NoItem

SpecOwn == InitOwn /\ [][Next]_vars

\* ------------------------------------------------------------ claims
\* A collection: an array whose elements are all objects.
Collection(c) == IsArray(c) /\ \A i \in DOMAIN c.a : IsObject(c.a[i])

\* No two elements of the array carry the same id.
IdsDistinct(c) ==
    /\ IsArray(c)
    /\ \A i, j \in DOMAIN c.a : i # j => Get(c.a[i], "id") # Get(c.a[j], "id")

\* This step is a call of op that returned to its caller.
Returned(op) == calls' = calls + 1 /\ last'.op = op /\ ~last'.raised

\* C1: a call of addSnippet on a collection whose ids are pairwise distinct
\* leaves a collection whose ids are pairwise distinct, also when the clock
\* has not moved since the call before it.
C1_AddKeepsIdsDistinct ==
    [][(Returned("add") /\ IdsDistinct(snippets)) => IdsDistinct(snippets')]_vars

\* C2: after a mutation that returned true, the slot holds the serialization
\* of the cache, however many writes failed before.
C2_SuccessSynchronizes ==
    (last.op \in Mutations /\ last.ret = Bool(TRUE)) => slot = Stringify(snippets, 0)

\* A mutation returned true and wrote a non-empty collection after an
\* earlier write had failed.
C2_Witness ==
    /\ last.op \in Mutations
    /\ last.ret = Bool(TRUE)
    /\ last.write = "done"
    /\ failures > 0
    /\ IsArray(snippets) /\ snippets.a # <<>>

\* C3: a mutation whose backend write raises leaves the cache as it was
\* before the call.
C3_RollbackOnFailure ==
    [][(calls' = calls + 1 /\ last'.op \in Mutations /\ last'.write = "failed")
          => snippets' = snippets]_vars

\* The text parses to an array with an element that lacks a truthy title,
\* language or code.
HasPartial(text) ==
    /\ ~ParseThrows(text)
    /\ IsArray(Parse(text))
    /\ \E i \in DOMAIN Parse(text).a : ~HasRequired(Parse(text).a[i])

\* C4: importSnippets of an array with a partial record returns false and
\* changes neither the cache nor the slot.
C4_ImportRejectsPartial ==
    [][(Returned("import") /\ HasPartial(last'.arg.text))
          => (last'.ret = Bool(FALSE) /\ snippets' = snippets /\ slot' = slot)]_vars

\* C5: updateSnippet on an existing record leaves the id and the createdAt
\* of every record as they were, whatever the fields are.
C5_UpdateKeepsIdentity ==
    [][(Returned("update") /\ last'.write # "none")
          => \A i \in DOMAIN snippets.a :
                /\ Get(snippets'.a[i], "id") = Get(snippets.a[i], "id")
                /\ Get(snippets'.a[i], "createdAt") = Get(snippets.a[i], "createdAt")]_vars

\* C6: on a collection, importSnippets(exportSnippets()) whose write does not
\* fail returns true and leaves the collection as it was.
C6_RoundTrip ==
    [][(Returned("roundtrip") /\ Collection(snippets) /\ last'.write # "failed")
          => (last'.ret = Bool(TRUE) /\ snippets' = snippets)]_vars

\* C7: the record addSnippet stores carries the id generated from the clock
\* and the createdAt of the call, and no updatedAt.
C7_AddStampsIdentity ==
    [][Returned("add")
          => LET stored == snippets'.a[Len(snippets'.a)]
             IN  /\ Get(stored, "id") = Str(ToDecimal(now))
                 /\ Get(stored, "createdAt") = Str(ToISOString(now))
                 /\ "updatedAt" \notin DOMAIN stored.o]_vars

\* C8: every record of the collection has an id and the ids are pairwise
\* distinct.
C8_IdsPresentAndDistinct ==
    Collection(snippets)
        => /\ \A i \in DOMAIN snippets.a : "id" \in DOMAIN snippets.a[i].o
           /\ IdsDistinct(snippets)

\* The queries searchSnippets is tried with: the empty one, one that
\* matches no record and one in upper case.
SearchQueries == {S(<<>>), S(<<"z">>), S(<<"A">>)}

\* C9: no call has raised to its caller, and in the state reached none of
\* the queries searchSnippets, getAllTags and getSnippetById would.
C9_NoRaise ==
    /\ ~last.raised
    /\ \A q \in SearchQueries : ~searchSnippets(snippets, slot, q).raised
    /\ ~getAllTags(snippets, slot).raised
    /\ \A id \in IdsOf(snippets) \cup {AbsentId} :
          ~getSnippetById(snippets, slot, id).raised

\* The text is present and is not the serialization of a collection.
Malformed(text) ==
    \/ text.kind = "garbage"
    \/ text.kind = "json" /\ ~Collection(Parse(text))

\* C10: a store constructed over a malformed slot has the empty collection
\* as its cache, and its construction did not fail.
C10_MalformedLoadsEmpty ==
    (last.op = "new" /\ Malformed(last.arg.text))
        => (snippets = Arr(<<>>) /\ ~last.raised)

\* ---------------------------------------------------------------------
\* C11 as stated: a store constructed over an absent slot holds the empty
\* collection and has written its text to the slot, and a store constructed
\* over the slot afterwards holds the empty collection too, read from a slot
\* that is present and parses to a sequence.
EmptyCollection == Arr(<<>>)

Bootstrapped ==
    /\ snippets = EmptyCollection
    /\ slot = Stringify(EmptyCollection, 0)
    /\ \A ok \in BOOLEAN :
          /\ Construct(slot, ok).snippets = EmptyCollection
          /\ Construct(slot, ok).slot = slot
          /\ Construct(slot, ok).write = "none"

C11_BootstrapWritesSlot ==
    (last.op = "new" /\ last.arg.text = NoItem) => Bootstrapped

\* C11, amended: a store constructed over an absent slot holds the empty
\* collection; when the write of the empty collection completes, the slot
\* holds its text and a store constructed over the slot afterwards holds the
\* empty collection too, read without a further write; when that write
\* raises, the slot stays absent.
C11_Bootstrap ==
    (last.op = "new" /\ last.arg.text = NoItem) =>
        /\ snippets = EmptyCollection
        /\ last.write = "done" => Bootstrapped
        /\ last.write = "failed" => slot = NoItem
        /\ last.write # "none"

C11_Witness ==
    /\ last.op = "new"
    /\ last.arg.text = NoItem
    /\ last.write = "done"
    /\ slot = Stringify(EmptyCollection, 0)

\* C12: deleteSnippet(id) when no record has that id returns false, writes
\* nothing to the slot and leaves the cache unchanged; so does a second
\* deleteSnippet(id) made directly after one that returned true.
NoEffect ==
    /\ ~last'.raised
    /\ last'.ret = Bool(FALSE)
    /\ last'.write = "none"
    /\ snippets' = snippets
    /\ slot' = slot

DeleteCalled == calls' = calls + 1 /\ last'.op = "delete"

C12_DeleteAbsentId ==
    [][/\ (DeleteCalled /\ last'.arg.id \notin IdsOf(snippets)) => NoEffect
       /\ (DeleteCalled /\ last.op = "delete" /\ last.ret = Bool(TRUE)
              /\ last'.arg.id = last.arg.id) => NoEffect]_vars

\* A delete that returned false for the id "0", which the first call gave to
\* its record and the second call deleted with a completed write.
C12_Witness ==
    /\ calls = 3
    /\ last.op = "delete"
    /\ last.arg.id = S(<<"0">>)
    /\ last.ret = Bool(FALSE)
    /\ snippets = EmptyCollection
    /\ slot = Stringify(EmptyCollection, 0)

\* C13: updateSnippet(id, fields) when no record has that id returns false,
\* attempts no write and leaves cache and slot unchanged.
C13_UpdateAbsentId ==
    [][(calls' = calls + 1 /\ last'.op = "update"
          /\ last'.arg.id \notin IdsOf(snippets)) => NoEffect]_vars

C13_Witness ==
    /\ last.op = "update"
    /\ last.arg.id = AbsentId
    /\ last.ret = Bool(FALSE)
    /\ last.write = "none"
    /\ Len(snippets.a) > 0

\* C14: importSnippets(raw) returns false and leaves cache and slot unchanged
\* whenever raw does not parse, parses to a value that is not a sequence, or
\* parses to a sequence with an element that is null or not an object.
Unimportable(text) ==
    \/ ParseThrows(text)
    \/ ~IsArray(Parse(text))
    \/ \E i \in DOMAIN Parse(text).a : ~IsObject(Parse(text).a[i])

ImportCalled == calls' = calls + 1 /\ last'.op = "import"

C14_ImportRejectsNonRecords ==
    [][(ImportCalled /\ Unimportable(last'.arg.text)) => NoEffect]_vars

\* C15: when importSnippets returns true, the cache afterwards is the parsed
\* sequence, every element in input order, and the slot holds its text.
C15_ImportInstallsAll ==
    [][(ImportCalled /\ last'.ret = Bool(TRUE)) =>
          /\ snippets' = Parse(last'.arg.text)
          /\ slot' = Stringify(Parse(last'.arg.text), 0)]_vars

\* C16: an updateSnippet(id, fields) that returned true changed only the
\* records carrying the id: there the keys of fields have the new values,
\* the other keys their old values and updatedAt the current time, also
\* when fields names an updatedAt; every record keeps its position and the
\* records with another id are unchanged.
Updated(old, new, fields, t) ==
    /\ IsObject(new)
    /\ DOMAIN new.o = DOMAIN old.o \cup DOMAIN fields.o \cup {"updatedAt"}
    /\ new.o["updatedAt"] = Str(ToISOString(t))
    /\ \A k \in DOMAIN fields.o \ {"updatedAt"} : new.o[k] = fields.o[k]
    /\ \A k \in DOMAIN old.o \ (DOMAIN fields.o \cup {"updatedAt"}) :
          new.o[k] = old.o[k]

C16_UpdateChangesOnlyMatched ==
    [][(calls' = calls + 1 /\ last'.op = "update" /\ last'.ret = Bool(TRUE)) =>
          /\ IsArray(snippets')
          /\ Len(snippets'.a) = Len(snippets.a)
          /\ \A i \in DOMAIN snippets.a :
                IF Get(snippets.a[i], "id") = last'.arg.id
                THEN Updated(snippets.a[i], snippets'.a[i], last'.arg.fields, now)
                ELSE snippets'.a[i] = snippets.a[i]]_vars

\* An update with fields naming updatedAt returned true on a collection of
\* two records, of which the first was changed and the second was not.
C16_Witness ==
    /\ last.op = "update"
    /\ last.ret = Bool(TRUE)
    /\ "updatedAt" \in DOMAIN last.arg.fields.o
    /\ Len(snippets.a) = 2
    /\ Get(snippets.a[1], "updatedAt") = Str(ToISOString(now))
    /\ Get(snippets.a[2], "updatedAt") = Undefined

\* A collection whose records have strings for the title, description and
\* code they carry and a sequence of strings for tags.
TextKeys == {"title", "description", "code"}

TextRecord(s) ==
    /\ IsObject(s)
    /\ \A k \in TextKeys : Get(s, k) = Undefined \/ IsString(Get(s, k))
    /\ \/ Get(s, "tags") = Undefined
       \/ /\ IsArray(Get(s, "tags"))
          /\ \A i \in DOMAIN Get(s, "tags").a : IsString(Get(s, "tags").a[i])

TextRecords(c) == IsArray(c) /\ \A i \in DOMAIN c.a : TextRecord(c.a[i])

\* C17: searchSnippets("") returns every record of the collection, the
\* records with empty or absent title, description and code and with empty
\* tags included.
C17_EmptyQueryReturnsAll ==
    TextRecords(snippets) =>
        /\ ~searchSnippets(snippets, slot, S(<<>>)).raised
        /\ searchSnippets(snippets, slot, S(<<>>)).ret = snippets

\* The texts of a record the query is looked for in: title, description
\* and code, empty when absent, and every tag.
TextsOf(s) ==
    {IF Get(s, k) = Undefined THEN <<>> ELSE Get(s, k).s : k \in TextKeys}
      \cup (IF Get(s, "tags") = Undefined THEN {}
            ELSE {Get(s, "tags").a[i].s : i \in DOMAIN Get(s, "tags").a})

QueryMatches(s, query) ==
    \E text \in TextsOf(s) : Includes(ToLowerCase(text), ToLowerCase(query.s))

\* C18: for every query, searchSnippets returns, in collection order,
\* exactly the records in which the lower-cased query is a substring of the
\* lower-cased title, description, code or a tag, and changes neither the
\* cache nor the slot.
C18_SearchReturnsMatches ==
    TextRecords(snippets) =>
        \A q \in SearchQueries :
            LET matches(s) == QueryMatches(s, q)
                found == searchSnippets(snippets, slot, q)
            IN  /\ ~found.raised
                /\ found.ret = Arr(SelectSeq(snippets.a, matches))
                /\ found.snippets = snippets
                /\ found.slot = slot

\* The tags occurring in the records of c that carry a tags sequence.
TagValues(c) ==
    UNION {IF IsArray(Get(c.a[i], "tags"))
           THEN {Get(c.a[i], "tags").a[k] : k \in DOMAIN Get(c.a[i], "tags").a}
           ELSE {} : i \in DOMAIN c.a}

\* C19: getAllTags() returns the tags occurring in the records' tags
\* sequences, all of them and nothing else, each once, in ascending order
\* of their strings; a record without a tags sequence contributes nothing.
C19_AllTagsSortedOnce ==
    Collection(snippets) =>
        LET tags == getAllTags(snippets, slot)
        IN  /\ ~tags.raised
            /\ IsArray(tags.ret)
            /\ {tags.ret.a[i] : i \in DOMAIN tags.ret.a} = TagValues(snippets)
            /\ \A i, j \in DOMAIN tags.ret.a :
                  i < j => /\ tags.ret.a[i] # tags.ret.a[j]
                           /\ StringLess(TagString(tags.ret.a[i]),
                                         TagString(tags.ret.a[j]))
            /\ tags.snippets = snippets
            /\ tags.slot = slot

\* Two records carry the tags "b", "a" each and a third has no tags key;
\* getAllTags() is "a", "b".
C19_Witness ==
    /\ Collection(snippets)
    /\ Len(snippets.a) = 3
    /\ \E i \in DOMAIN snippets.a : Get(snippets.a[i], "tags") = Undefined
    /\ \E i, j \in DOMAIN snippets.a :
          /\ i # j
          /\ Get(snippets.a[i], "tags") = Arr(<<S(<<"b">>), S(<<"a">>)>>)
          /\ Get(snippets.a[j], "tags") = Arr(<<S(<<"b">>), S(<<"a">>)>>)
    /\ getAllTags(snippets, slot).ret = Arr(<<S(<<"a">>), S(<<"b">>)>>)

\* The record the call before, an addSnippet that returned false, had built:
\* the one at the end of the cache.
FailedAdd == last.op = "add" /\ ~last.raised /\ last.ret = Bool(FALSE)
FailedRecord == snippets.a[Len(snippets.a)]

\* The text holds a sequence with r in it.
InSlot(r, text) ==
    /\ text.kind = "json"
    /\ IsArray(Parse(text))
    /\ \E i \in DOMAIN Parse(text).a : Parse(text).a[i] = r

\* This step is an addSnippet, updateSnippet or deleteSnippet that returned
\* true and was made for another record than r.
SucceedsOnOther(r) ==
    /\ calls' = calls + 1
    /\ last'.ret = Bool(TRUE)
    /\ \/ last'.op \in {"update", "delete"} /\ last'.arg.id # Get(r, "id")
       \/ last'.op = "add" /\ snippets'.a[Len(snippets'.a)] # r

\* C20: a record whose addSnippet returned false, and which the slot does
\* not hold, is not in the slot after a later successful addSnippet,
\* updateSnippet or deleteSnippet on another record.
C20_FailedAddStaysOut ==
    [][(FailedAdd /\ ~InSlot(FailedRecord, slot) /\ SucceedsOnOther(FailedRecord))
          => ~InSlot(FailedRecord, slot')]_vars

RECURSIVE SubsequenceOf(_, _)
SubsequenceOf(a, b) ==
    IF a = <<>> THEN TRUE
    ELSE IF b = <<>> THEN FALSE
    ELSE IF Head(a) = Head(b) /\ SubsequenceOf(Tail(a), Tail(b)) THEN TRUE
    ELSE SubsequenceOf(a, Tail(b))

\* The keys of a record that an update with these fields does not set.
KeptKeys(s, fields) == DOMAIN s.o \ (DOMAIN fields.o \cup {"updatedAt"})

\* C22: the collection stays insertion-ordered. addSnippet leaves the
\* records where they were and places the new one after them; updateSnippet
\* leaves at every index the record that was there, changed at most in the
\* keys the update sets; deleteSnippet leaves the remaining records in the
\* order they had. A call that raises leaves the collection as it was.
C22_InsertionOrder ==
    [][(calls' = calls + 1 /\ last'.op \in {"add", "update", "delete"}) =>
          IF last'.raised THEN snippets' = snippets
          ELSE /\ IsArray(snippets')
               /\ last'.op = "add" =>
                     /\ Len(snippets'.a) = Len(snippets.a) + 1
                     /\ SubSeq(snippets'.a, 1, Len(snippets.a)) = snippets.a
                     /\ Get(snippets'.a[Len(snippets'.a)], "id") = Str(ToDecimal(now))
               /\ last'.op = "update" =>
                     /\ Len(snippets'.a) = Len(snippets.a)
                     /\ \A i \in DOMAIN snippets.a :
                           \A k \in KeptKeys(snippets.a[i], last'.arg.fields) :
                               Get(snippets'.a[i], k) = Get(snippets.a[i], k)
               /\ last'.op = "delete" =>
                     /\ SubsequenceOf(snippets'.a, snippets.a)
                     /\ \A i \in DOMAIN snippets.a :
                           Get(snippets.a[i], "id") # last'.arg.id =>
                               \E j \in DOMAIN snippets'.a :
                                   snippets'.a[j] = snippets.a[i]]_vars

\* A deleteSnippet that returned true took one record out of three and left
\* the two others, which differ, in their order.
C22_Witness ==
    /\ last.op = "delete"
    /\ last.ret = Bool(TRUE)
    /\ Len(last.held.a) = 3
    /\ Len(snippets.a) = 2
    /\ snippets.a[1] # snippets.a[2]
    /\ snippets.a[1] = last.held.a[1]
    /\ snippets.a[2] = last.held.a[2]

\* C23: every write to the slot, construction included, is made inside
\* saveSnippets and comes with the cache set to the collection written.
C23_SaveSnippetsOnlyWriter ==
    last.write = "done" =>
        /\ last.writer = "saveSnippets"
        /\ slot = Stringify(snippets, 0)

\* The state is the one a construction left, over the slot content prior.
Constructed == last.op = "new"
Prior == last.arg.text

Others(c, id) == Cardinality({i \in DOMAIN c.a : Get(c.a[i], "id") # id})

\* C25: after a deleteSnippet(id) that returned true no record of the
\* collection carries the id, however many carried it before,
\* getSnippetById(id) returns null, and every record with another id is
\* still in the collection.
C25_DeleteRemovesAll ==
    [][(DeleteCalled /\ last'.ret = Bool(TRUE)) =>
          /\ IsArray(snippets')
          /\ \A j \in DOMAIN snippets'.a : Get(snippets'.a[j], "id") # last'.arg.id
          /\ ~getSnippetById(snippets', slot', last'.arg.id).raised
          /\ getSnippetById(snippets', slot', last'.arg.id).ret = Null
          /\ Len(snippets'.a) = Others(snippets, last'.arg.id)
          /\ \A i \in DOMAIN snippets.a :
                Get(snippets.a[i], "id") # last'.arg.id =>
                    \E j \in DOMAIN snippets'.a : snippets'.a[j] = snippets.a[i]]_vars

\* A deleteSnippet that returned true took the two records carrying its id
\* out of a collection of three and left the third.
C25_Witness ==
    /\ last.op = "delete"
    /\ last.ret = Bool(TRUE)
    /\ Len(last.held.a) = 3
    /\ Len(snippets.a) = 1
    /\ Get(last.held.a[1], "id") = last.arg.id
    /\ Get(last.held.a[2], "id") = last.arg.id
    /\ snippets.a[1] = last.held.a[3]

\* C26: a store mutation made by a UI handler that returned false is
\* followed by an error notification, and one that returned true by
\* renderSnippets() and updateTagFilter().
C26_HandlersReport ==
    \A i \in DOMAIN ui.returns :
        /\ ui.returns[i] = Bool(FALSE) => ui.notice = "error"
        /\ ui.returns[i] = Bool(TRUE) => ui.rendered /\ ui.refreshed

====
